---- MODULE Spec2Model ----
(***************************************************************************)
(* Model of generate2.py: the scan of apps/packages, the validation of     *)
(* every version directory and the emission of the signed manifest.        *)
(*                                                                         *)
(* The script is sequential; pc is its position.  The input tree is the    *)
(* variable disk, the .sha256 sidecars are the variable sidecar and the    *)
(* three output files are the variable files.  A Python dict is modelled   *)
(* as the sequence of its <<key, value>> pairs in insertion order, which   *)
(* is also the order json.dump writes them in.                             *)
(***************************************************************************)
EXTENDS Integers, Sequences, FiniteSets, TLC

\* ------------------------------------------------------------------ bounds
MaxDefects == 2     \* attributes of the input tree that differ from a well-formed tree
MaxRuns == 2        \* successive runs of the script over the same tree

VARIABLES
    disk,               \* the input tree under apps/packages (never written by the script)
    env,                \* what ./compress-apks and signify do when they are run
    sidecar,            \* <<p, v, a>> -> <<>> (no .sha256 file) or <<digest>>
    files,              \* metadata.1.json, metadata.1.json.0.sig, metadata.1.sjson
    pc,                 \* position of the script
    err,                \* the exception that ended the run, "" if none
    run,                \* number of the current run
    pkgQueue,           \* package names still to be visited by the loop of line 42
    verQueue,           \* entries still to be visited by the loop of line 52
    apkQueue,           \* artifact names still to be visited by the loop of line 115
    pkg_name,
    common_props,
    package_variants,
    pkg_version,
    pkg_props,
    base_apk_signature,
    packages,
    sig,                \* the line read from the signature file (line 187)
    log,                \* tools invoked and files written in this run, in order
    files0,             \* the output files as they were when the run started
    sidecar0,           \* the sidecars as they were when the run started
    lastManifest,       \* <<>> or the metadata.1.json of the last run, if it completed
    clock               \* the time in seconds, as utcnow() returns it

vars == <<disk, env, sidecar, files, pc, err, run, pkgQueue, verQueue, apkQueue,
          pkg_name, common_props, package_variants, pkg_version, pkg_props,
          base_apk_signature, packages, sig, log, files0, sidecar0, lastManifest,
          clock>>

\* ------------------------------------------------------- Python primitives
\* dict: sequence of <<key, value>> pairs, keys distinct, insertion order
DictHas(d, k) == \E i \in 1..Len(d) : d[i][1] = k

DictGet(d, k) == d[CHOOSE i \in 1..Len(d) : d[i][1] = k][2]

\* d[k] = v : an existing key keeps its position, a new key goes last
DictSet(d, k, v) ==
    IF DictHas(d, k)
    THEN [i \in 1..Len(d) |-> IF d[i][1] = k THEN <<k, v>> ELSE d[i]]
    ELSE Append(d, <<k, v>>)

DictDel(d, k) == SelectSeq(d, LAMBDA kv : kv[1] # k)

DictKeys(d) == {d[i][1] : i \in 1..Len(d)}

\* a key that dst already has keeps its value
RECURSIVE DictUpdate_keep(_, _)
DictUpdate_keep(dst, src) ==
    IF src = <<>> THEN dst
    ELSE DictUpdate_keep(IF DictHas(dst, src[1][1]) THEN dst
                         ELSE DictSet(dst, src[1][1], src[1][2]), Tail(src))

\* for key,value in src.items(): dst[key] = value
RECURSIVE DictUpdate(_, _)
DictUpdate(dst, src) ==
    IF src = <<>> THEN dst
    ELSE DictUpdate(DictSet(dst, src[1][1], src[1][2]), Tail(src))

\* x in list
InList(x, l) == \E i \in 1..Len(l) : l[i] = x

\* a name is the sequence of its characters; the digits are 0..9 and every
\* other character is a number above 9
IsDigits(s) == Len(s) > 0 /\ \A i \in 1..Len(s) : s[i] \in 0..9

\* int(s) for a string of decimal digits
RECURSIVE IntOf(_)
IntOf(s) ==
    IF s = <<>> THEN 0
    ELSE 10 * IntOf(SubSeq(s, 1, Len(s) - 1)) + s[Len(s)]

\* the decimal digits of n, as a name
RECURSIVE Digits(_)
Digits(n) == IF n < 10 THEN <<n>> ELSE Append(Digits(n \div 10), n % 10)

\* string order: the first differing character decides, a proper prefix is smaller
RECURSIVE StrLess(_, _)
StrLess(s, t) ==
    IF t = <<>> THEN FALSE
    ELSE IF s = <<>> THEN TRUE
    ELSE IF s[1] # t[1] THEN s[1] < t[1]
    ELSE StrLess(Tail(s), Tail(t))

\* sorted(names) for a set of names
RECURSIVE SortedNames(_)
SortedNames(S) ==
    IF S = {} THEN <<>>
    ELSE LET m == CHOOSE x \in S : \A y \in S : x = y \/ StrLess(x, y)
         IN <<m>> \o SortedNames(S \ {m})

\* sorted(ids) for a set of numbers
RECURSIVE SortedInts(_)
SortedInts(S) ==
    IF S = {} THEN <<>>
    ELSE LET m == CHOOSE x \in S : \A y \in S : x <= y
         IN <<m>> \o SortedInts(S \ {m})

\* hashlib sha256 of a file's content: one digest per content
Sha256(content) == <<"sha256", content>>

\* ------------------------------------------------------------ the input tree
PkgNames == {1}                 \* directory names under apps/packages
VersionIds == {1, 2}            \* the version directories a package may hold
BaseApk == 0                    \* "base.apk"
ApkNames == {BaseApk, 1}        \* 1 is "split1.apk", which sorts after "base.apk"
Paths == PkgNames \X VersionIds \X ApkNames

\* the name of version directory v: "9", "10", "11", ...
VersionDir(v) == Digits(8 + v)

\* names of the entries of a package directory that are not version directories
CommonPropsFile == <<12, 24>>   \* "common-props.toml"
IconFile == <<18, 12>>          \* "icon.webp"
JunkDir == <<29, 22>>           \* a directory whose name is not a number

Trusted == "D1"                 \* the signing identity of a well-formed tree
Foreign == "D2"                 \* another signing identity

\* one attribute per digit, so that sizes and contents of distinct files differ
FileId(p, v, a, k) == ((p * 10 + v) * 10 + a) * 10 + k

\* a well-formed artifact: signed once by the trusted identity, declaring the
\* package's name and the directory's version code, compressed, not yet hashed
CleanApk(p, v, a) ==
    [ exists     |-> TRUE,
      signers    |-> <<Trusted>>,         \* digests apksigner prints
      declName   |-> p,                   \* name='...' of the badging
      declCode   |-> <<VersionDir(v)>>,   \* versionCode='...', <<>> if none
      versionName |-> "1.0",
      sdk        |-> <<Digits(21)>>,      \* sdkVersion:'...', <<>> if none
      native     |-> <<>>,                \* one list of architectures per native-code line
      content    |-> FileId(p, v, a, 3),
      size       |-> FileId(p, v, a, 0),
      gzSize     |-> FileId(p, v, a, 1),
      brSize     |-> FileId(p, v, a, 2),
      mtime      |-> 1,
      gzMtime    |-> <<1>>,               \* <<>> if the .gz companion is missing
      brMtime    |-> <<1>> ]

CleanVersion(p, v) ==
    [ kind  |-> "dir",
      props |-> << <<"channel", "stable">> >>,     \* props.toml
      apks  |-> [a \in ApkNames |-> CleanApk(p, v, a)] ]

CleanPackage(p) ==
    [ exists      |-> TRUE,
      commonProps |-> << <<"signatures", <<Trusted>> >> >>,   \* common-props.toml
      hasCommonProps |-> TRUE,
      icon        |-> FALSE,
      junk        |-> FALSE,
      vers        |-> [v \in VersionIds |-> CleanVersion(p, v)] ]

CleanTree == [p \in PkgNames |-> CleanPackage(p)]

CleanSidecars == [x \in Paths |-> <<>>]

\* the ways one attribute of the tree may differ from the well-formed tree
PkgEdits ==
    { [lvl |-> "pkg", p |-> p, v |-> 0, a |-> 0, attr |-> e[1], val |-> e[2]] :
        p \in PkgNames,
        e \in { <<"exists", FALSE>>, <<"hasCommonProps", FALSE>>,
                <<"icon", TRUE>>, <<"junk", TRUE>>,
                <<"commonProps", << <<"signatures", <<Trusted, Foreign>> >> >> >> } }

VerEdits ==
    { [lvl |-> "ver", p |-> p, v |-> v, a |-> 0, attr |-> e[1], val |-> e[2]] :
        p \in PkgNames, v \in VersionIds,
        e \in { <<"cached", TRUE>>,
                <<"channel", <<"old">> >>, <<"channel", <<"nightly">> >>,
                <<"channel", <<>> >>,
                <<"versionCode", <<77>> >>, <<"minSdk", <<19>> >>,
                <<"apks", << <<9>> >> >> } }

ApkEdits ==
    { [lvl |-> "apk", p |-> p, v |-> v, a |-> a, attr |-> e[1], val |-> e[2]] :
        p \in PkgNames, v \in VersionIds, a \in ApkNames,
        e \in { <<"exists", FALSE>>,
                <<"signers", <<Foreign>> >>, <<"signers", <<>> >>,
                <<"signers", <<Trusted, Foreign>> >>,
                <<"declName", 0>>,
                <<"declCode", <<Digits(77)>> >>,
                <<"gzMtime", <<2>> >>, <<"brMtime", <<>> >>,
                <<"sidecar", "stale">> } }

BaseEdits ==
    { [lvl |-> "apk", p |-> p, v |-> v, a |-> BaseApk, attr |-> e[1], val |-> e[2]] :
        p \in PkgNames, v \in VersionIds,
        e \in { <<"sdk", <<>> >>,
                <<"native", << <<"arm64-v8a">> >> >>,
                <<"native", << <<"arm64-v8a", "x86_64">> >> >>,
                <<"native", << <<"arm64-v8a">>, <<"x86_64">> >> >> } }

\* what the tools outside the tree do: the exit status of ./compress-apks and
\* whether signify signs, writes a signature file of one line, or fails
CleanEnv == [compress |-> 0, signify |-> "signed"]

EnvEdits ==
    { [lvl |-> "env", p |-> 0, v |-> 0, a |-> 0, attr |-> e[1], val |-> e[2]] :
        e \in { <<"compress", 1>>, <<"signify", "truncated">>, <<"signify", "failed">> } }

NoEdit == [lvl |-> "none", p |-> 0, v |-> 0, a |-> 0, attr |-> "", val |-> 0]

Edits == EnvEdits \cup PkgEdits \cup VerEdits \cup ApkEdits \cup BaseEdits \cup {NoEdit}

\* the digest a sidecar edit puts in the .sha256 file: the digest of the
\* artifact's content, or the digest of some other content
SidecarDigest(apk, how) ==
    IF how = "valid" THEN Sha256(apk.content) ELSE Sha256(0)

\* props.toml with one key set (val = <<x>>) or removed (val = <<>>)
EditProps(props, key, val) ==
    IF val = <<>> THEN DictDel(props, key) ELSE DictSet(props, key, val[1])

EditPkg(t, e) ==
    [t EXCEPT ![e.p] =
        IF e.attr = "exists" THEN [@ EXCEPT !.exists = e.val]
        ELSE IF e.attr = "hasCommonProps" THEN [@ EXCEPT !.hasCommonProps = e.val]
        ELSE IF e.attr = "icon" THEN [@ EXCEPT !.icon = e.val]
        ELSE IF e.attr = "junk" THEN [@ EXCEPT !.junk = e.val]
        ELSE [@ EXCEPT !.commonProps = e.val]]

EditVer(t, e) ==
    [t EXCEPT ![e.p].vers[e.v] =
        IF e.attr = "kind" THEN [@ EXCEPT !.kind = e.val]
        ELSE [@ EXCEPT !.props = EditProps(@, e.attr, e.val)]]

EditApk(t, e) ==
    [t EXCEPT ![e.p].vers[e.v].apks[e.a] =
        IF e.attr = "exists" THEN [@ EXCEPT !.exists = e.val]
        ELSE IF e.attr = "signers" THEN [@ EXCEPT !.signers = e.val]
        ELSE IF e.attr = "declName" THEN [@ EXCEPT !.declName = e.val]
        ELSE IF e.attr = "declCode" THEN [@ EXCEPT !.declCode = e.val]
        ELSE IF e.attr = "gzMtime" THEN [@ EXCEPT !.gzMtime = e.val]
        ELSE IF e.attr = "brMtime" THEN [@ EXCEPT !.brMtime = e.val]
        ELSE IF e.attr = "sdk" THEN [@ EXCEPT !.sdk = e.val]
        ELSE [@ EXCEPT !.native = e.val]]

\* the tree and its sidecars after one edit
ApplyEdit(ts, e) ==
    IF e.lvl = "none" THEN ts
    ELSE IF e.lvl = "env" THEN
        IF e.attr = "compress" THEN [ts EXCEPT !.env.compress = e.val]
        ELSE [ts EXCEPT !.env.signify = e.val]
    ELSE IF e.lvl = "pkg" THEN [ts EXCEPT !.tree = EditPkg(@, e)]
    ELSE IF e.lvl = "ver" /\ e.attr = "cached" THEN
        [ts EXCEPT !.side =
            [x \in Paths |->
                IF x[1] = e.p /\ x[2] = e.v
                THEN <<SidecarDigest(ts.tree[e.p].vers[e.v].apks[x[3]], "valid")>>
                ELSE @[x]]]
    ELSE IF e.lvl = "ver" THEN [ts EXCEPT !.tree = EditVer(@, e)]
    ELSE IF e.attr = "sidecar" THEN
        [ts EXCEPT !.side[<<e.p, e.v, e.a>>] =
            <<SidecarDigest(ts.tree[e.p].vers[e.v].apks[e.a], e.val)>>]
    ELSE [ts EXCEPT !.tree = EditApk(@, e)]

RECURSIVE ApplyEdits(_, _)
ApplyEdits(ts, es) ==
    IF es = <<>> THEN ts ELSE ApplyEdits(ApplyEdit(ts, es[1]), Tail(es))

\* the trees the script may be started on
InputTrees ==
    { ApplyEdits([tree |-> CleanTree, side |-> CleanSidecars, env |-> CleanEnv], es) :
        es \in [1..MaxDefects -> Edits] }

\* -------------------------------------------------------- the external tools
\* a line of text is <<head, rest>>: what precedes the separator and what follows
SignerPrefix == "Signer #N certificate SHA-256 digest: "

\* the lines of `apksigner verify --print-certs --verbose`, split at "\n"
RECURSIVE SignerLines(_)
SignerLines(ds) ==
    IF ds = <<>> THEN <<>>
    ELSE << <<SignerPrefix, ds[1]>>,
            <<"Signer #N certificate SHA-1 digest: ", ds[1]>> >> \o SignerLines(Tail(ds))

ApksignerOutput(apk) ==
    << <<"Verifies", "">> >> \o SignerLines(apk.signers) \o << <<"", "">> >>

\* the lines of `aapt2 dump badging`, split at "\n"; a line is the list of
\* its shell tokens, a token is <<head, rest>>
RECURSIVE NativeLines(_)
NativeLines(ns) ==
    IF ns = <<>> THEN <<>>
    ELSE << << <<"native-code", "">> >> \o [i \in 1..Len(ns[1]) |-> <<ns[1][i], "">>] >>
         \o NativeLines(Tail(ns))

Aapt2Output(apk) ==
    << << <<"package:", "">>, <<"name", apk.declName>> >>
       \o [i \in 1..Len(apk.declCode) |-> <<"versionCode", apk.declCode[i]>>]
       \o << <<"versionName", apk.versionName>>,
             <<"platformBuildVersionName", "14">> >> >>
    \o [i \in 1..Len(apk.sdk) |-> << <<"sdkVersion", apk.sdk[i]>> >>]
    \o << << <<"targetSdkVersion", Digits(33)>> >>,
          << <<"application-label", "App">> >>,
          << <<"application-label-en", "App">> >> >>
    \o NativeLines(apk.native)
    \o << <<>> >>

\* str.startswith on the head of a token
StartsWith(tok, prefix) == tok[1] = prefix

\* ----------------------------------------------------------------- functions
\* re.split of line 25: two parts exactly when the line starts with the prefix
ReSplit(line) == IF line[1] = SignerPrefix THEN <<"", line[2]>> ELSE <<line>>

\* the loop without the check of line 27: the last signer line wins
RECURSIVE ScanSigners_last(_, _)
ScanSigners_last(lines, sig_hash) ==
    IF lines = <<>> THEN
        IF sig_hash = <<>> THEN [err |-> "didn't find signature", val |-> ""]
        ELSE [err |-> "", val |-> sig_hash[1]]
    ELSE LET split == ReSplit(lines[1]) IN
        IF Len(split) = 2 THEN ScanSigners_last(Tail(lines), <<split[2]>>)
        ELSE ScanSigners_last(Tail(lines), sig_hash)

\* the loop of lines 24-30; sig_hash is <<>> for None
RECURSIVE ScanSigners(_, _)
ScanSigners(lines, sig_hash) ==
    IF lines = <<>> THEN
        IF sig_hash = <<>> THEN [err |-> "didn't find signature", val |-> ""]
        ELSE [err |-> "", val |-> sig_hash[1]]
    ELSE LET split == ReSplit(lines[1]) IN
        IF Len(split) = 2 THEN
            IF sig_hash # <<>> THEN [err |-> "more than one signer", val |-> ""]
            ELSE ScanSigners(Tail(lines), <<split[2]>>)
        ELSE ScanSigners(Tail(lines), sig_hash)

load_signature(apk) == ScanSigners(ApksignerOutput(apk), <<>>)

load_props(has, doc) == IF has THEN doc ELSE <<>>

\* the loop of lines 72-78 over the tokens of the primary's first line
RECURSIVE BaseFirstLine(_, _, _)
BaseFirstLine(toks, props, name) ==
    IF toks = <<>> THEN [err |-> "", props |-> props]
    ELSE LET kv == toks[1] IN
        IF StartsWith(kv, "versionName") THEN
            BaseFirstLine(Tail(toks), DictSet(props, "versionName", kv[2]), name)
        ELSE IF StartsWith(kv, "versionCode") THEN
            IF DictGet(props, "versionCode") = IntOf(kv[2])
            THEN BaseFirstLine(Tail(toks), props, name)
            ELSE [err |-> "AssertionError: versionCode", props |-> props]
        ELSE IF StartsWith(kv, "name") THEN
            IF name = kv[2]
            THEN BaseFirstLine(Tail(toks), props, name)
            ELSE [err |-> "AssertionError: name", props |-> props]
        ELSE BaseFirstLine(Tail(toks), props, name)

Abis == <<"arm64-v8a", "x86_64", "armeabi-v7a", "x86">>

\* the loop of lines 80-90 over lines[1:-1]
RECURSIVE BaseOtherLines(_, _)
BaseOtherLines(lines, props) ==
    IF lines = <<>> THEN [err |-> "", props |-> props]
    ELSE LET kv == lines[1] IN
        IF StartsWith(kv[1], "application-label") THEN
            BaseOtherLines(Tail(lines), DictSet(props, "label", kv[1][2]))
        ELSE IF StartsWith(kv[1], "sdkVersion") THEN
            BaseOtherLines(Tail(lines), DictSet(props, "minSdk", IntOf(kv[1][2])))
        ELSE IF StartsWith(kv[1], "native-code") THEN
            LET abi == kv[2][1] IN
            IF ~InList(abi, Abis) THEN [err |-> "AssertionError: abi", props |-> props]
            ELSE IF DictHas(props, "abis") THEN [err |-> "AssertionError: abis", props |-> props]
            ELSE BaseOtherLines(Tail(lines), DictSet(props, "abis", <<abi>>))
        ELSE BaseOtherLines(Tail(lines), props)

\* lines 68-90: the primary's badging applied to pkg_props
ParseBaseBadging(apk, props, name) ==
    LET lines == Aapt2Output(apk)
        first == BaseFirstLine(lines[1], props, name)
    IN  IF first.err # "" THEN first
        ELSE BaseOtherLines(SubSeq(lines, 2, Len(lines) - 1), first.props)

\* the loop of lines 139-144 over the tokens of an artifact's first line;
\* code is <<>> for None
RECURSIVE SplitFirstLine(_, _, _)
SplitFirstLine(toks, code, name) ==
    IF toks = <<>> THEN [err |-> "", code |-> code]
    ELSE LET kv == toks[1] IN
        IF StartsWith(kv, "versionCode") THEN
            IF code # <<>> THEN [err |-> "AssertionError: versionCode twice", code |-> code]
            ELSE SplitFirstLine(Tail(toks), <<IntOf(kv[2])>>, name)
        ELSE IF StartsWith(kv, "name") THEN
            IF name = kv[2]
            THEN SplitFirstLine(Tail(toks), code, name)
            ELSE [err |-> "AssertionError: name", code |-> code]
        ELSE SplitFirstLine(Tail(toks), code, name)

\* the declared package name is not compared
CheckArtifact_noName(apk, base_sig, props, name) ==
    LET s == load_signature(apk)
        b == SplitFirstLine(Aapt2Output(apk)[1], <<>>, apk.declName)
    IN  IF s.err # "" THEN s.err
        ELSE IF s.val # base_sig THEN "signature mismatch"
        ELSE IF b.err # "" THEN b.err
        ELSE IF <<DictGet(props, "versionCode")>> # b.code THEN "AssertionError: split versionCode"
        ELSE ""

\* the declared version code is not compared
CheckArtifact_noCode(apk, base_sig, props, name) ==
    LET s == load_signature(apk)
        b == SplitFirstLine(Aapt2Output(apk)[1], <<>>, name)
    IN  IF s.err # "" THEN s.err
        ELSE IF s.val # base_sig THEN "signature mismatch"
        ELSE IF b.err # "" THEN b.err
        ELSE ""

\* lines 132-146: the checks made on an artifact that has no sidecar
CheckArtifact(apk, base_sig, props, name) ==
    LET s == load_signature(apk)
        b == SplitFirstLine(Aapt2Output(apk)[1], <<>>, name)
    IN  IF s.err # "" THEN s.err
        ELSE IF s.val # base_sig THEN "signature mismatch"
        ELSE IF b.err # "" THEN b.err
        ELSE IF <<DictGet(props, "versionCode")>> # b.code THEN "AssertionError: split versionCode"
        ELSE ""

\* only the .gz companion is compared
CheckCompanions_gzOnly(apk) ==
    IF apk.gzMtime = <<>> THEN "FileNotFoundError: gz"
    ELSE IF apk.mtime # apk.gzMtime[1] THEN "AssertionError: gz mtime"
    ELSE ""

\* lines 121-122: the modification times of the companions
CheckCompanions(apk) ==
    IF apk.gzMtime = <<>> THEN "FileNotFoundError: gz"
    ELSE IF apk.mtime # apk.gzMtime[1] THEN "AssertionError: gz mtime"
    ELSE IF apk.brMtime = <<>> THEN "FileNotFoundError: br"
    ELSE IF apk.mtime # apk.brMtime[1] THEN "AssertionError: br mtime"
    ELSE ""

\* list.append on the list stored under key k
ListAppend(props, k, x) == DictSet(props, k, Append(DictGet(props, k), x))

\* lines 155-159
AppendArtifact(props, a, apk, apk_hash) ==
    ListAppend(ListAppend(ListAppend(ListAppend(ListAppend(props,
        "apkHashes", apk_hash), "apkSizes", apk.size), "apkGzSizes", apk.gzSize),
        "apkBrSizes", apk.brSize), "apks", a)

\* any channel is accepted, as long as there is one
CheckChannelAndPrint_present(props) ==
    IF ~DictHas(props, "channel") THEN "KeyError: channel" ELSE ""

\* line 97 and the message of lines 99-113; with no maxSdk, staticDeps or deps
\* key in props.toml the message is only printed
CheckChannelAndPrint(props) ==
    IF ~DictHas(props, "channel") THEN "KeyError: channel"
    ELSE IF ~InList(DictGet(props, "channel"), <<"alpha", "beta", "stable", "old">>)
        THEN "AssertionError: channel"
    ELSE ""

\* the digest is written with a line end
SidecarText_newline(apk_hash) == <<"sha256\n", apk_hash[2]>>

\* line 153: the text written to the sidecar
SidecarText(apk_hash) == apk_hash

\* the first line of the signature file is taken
SignaturePayload_first(lines) == lines[1]

\* line 187: f.read().splitlines()[1]
SignaturePayload(lines) == lines[2]

\* every version is kept
Retained_all(props) == TRUE

\* lines 163-164: a version of the "old" channel is not kept
Retained(props) == DictGet(props, "channel") # "old"

\* json.dump(metadata, f, separators=(',', ':')): one piece of text per document,
\* the keys in insertion order
JsonDump(metadata) == <<"json", metadata>>

\* the first line of a signature file
CommentLine == <<"untrusted comment", "verify with apps.0.pub">>

\* the signature signify computes over a text
Signature(text) == <<"sig", text>>

\* ------------------------------------------------------------------- actions
NoFiles == [json |-> <<>>, sig |-> <<>>, sjson |-> <<>>]   \* <<>>: no file, <<text>>: a file

Init ==
    /\ \E ts \in InputTrees :
        disk = ts.tree /\ sidecar = ts.side /\ sidecar0 = ts.side /\ env = ts.env
    /\ files = NoFiles
    /\ files0 = NoFiles
    /\ pc = "start"
    /\ err = ""
    /\ run = 1
    /\ pkgQueue = <<>>
    /\ verQueue = <<>>
    /\ apkQueue = <<>>
    /\ pkg_name = 0
    /\ common_props = <<>>
    /\ package_variants = <<>>
    /\ pkg_version = <<>>
    /\ pkg_props = <<>>
    /\ base_apk_signature = ""
    /\ packages = <<>>
    /\ sig = <<>>
    /\ log = <<>>
    /\ lastManifest = <<>>
    /\ clock = 1

\* the exception is caught and the script goes on with the next package
Raise_swallowed(e) == pc' = "packages" /\ err' = e

\* an uncaught exception ends the run
Raise(e) == pc' = "aborted" /\ err' = e

\* os.listdir of a package directory
PkgEntries(p) ==
    {VersionDir(v) : v \in {w \in VersionIds : disk[p].vers[w].kind # "absent"}}
    \cup (IF disk[p].hasCommonProps THEN {CommonPropsFile} ELSE {})
    \cup (IF disk[p].icon THEN {IconFile} ELSE {})
    \cup (IF disk[p].junk THEN {JunkDir} ELSE {})

\* os.path.isdir of an entry of a package directory
IsDir(p, name) ==
    \/ name = JunkDir
    \/ \E v \in VersionIds : VersionDir(v) = name /\ disk[p].vers[v].kind = "dir"

\* the version directory that has the given name
VerOf(name) == CHOOSE v \in VersionIds : VersionDir(v) = name

CurVersion == disk[pkg_name].vers[VerOf(pkg_version)]
CurPath(a) == <<pkg_name, VerOf(pkg_version), a>>

\* a sidecar is used only if it holds the digest of the artifact's content
CachedDigest_verified(path) ==
    IF sidecar[path] = <<Sha256(disk[path[1]].vers[path[2]].apks[path[3]].content)>>
    THEN sidecar[path] ELSE <<>>

\* the sidecar is not looked for: every artifact is hashed
CachedDigest_never(path) == <<>>

\* lines 126-128: <<>> if the artifact has no sidecar, else <<the sidecar's text>>
CachedDigest(path) == sidecar[path]

\* the loop of line 42 has visited every package
ScanFinished == pkgQueue = <<>>

\* the exit status of ./compress-apks is not looked at
CompressSucceeded_any(status) == TRUE

\* line 37: the exit status that the assertion accepts
CompressSucceeded(status) == status = 0

\* line 37: ./compress-apks is run and must exit with 0; lines 39-42.  The
\* tree in disk is the tree as the tool leaves it.
RunCompress ==
    /\ pc = "start"
    /\ log' = Append(log, <<"compress-apks", <<0, 0, 0>> >>)
    /\ IF CompressSucceeded(env.compress)
        THEN /\ pc' = "packages"
             /\ pkgQueue' = SortedInts({p \in PkgNames : disk[p].exists})
             /\ packages' = <<>>
             /\ err' = err
        ELSE /\ Raise("AssertionError: compress-apks")
             /\ UNCHANGED <<pkgQueue, packages>>
    /\ UNCHANGED <<disk, env, sidecar, files, run, verQueue, apkQueue, pkg_name, common_props,
                   package_variants, pkg_version, pkg_props, base_apk_signature, sig,
                   files0, sidecar0, lastManifest, clock>>

\* lines 42-52: the next package; its common properties and its entries
NextPackage ==
    /\ pc = "packages"
    /\ ~ScanFinished
    /\ LET p == Head(pkgQueue)
           loaded == load_props(disk[p].hasCommonProps, disk[p].commonProps)
           props == IF disk[p].icon THEN DictSet(loaded, "iconType", "webp") ELSE loaded
       IN  /\ pkg_name' = p
           /\ pkgQueue' = Tail(pkgQueue)
           /\ common_props' = props
           /\ IF DictHas(props, "signatures")
              THEN /\ package_variants' = <<>>
                   /\ verQueue' = SortedNames(PkgEntries(p))
                   /\ pc' = "versions"
                   /\ err' = err
              ELSE /\ Raise("KeyError: signatures")
                   /\ UNCHANGED <<package_variants, verQueue>>
    /\ UNCHANGED <<disk, env, sidecar, files, run, apkQueue, pkg_version, pkg_props,
                   base_apk_signature, packages, sig, log, files0, sidecar0, lastManifest, clock>>

\* lines 52-55: an entry that is not a directory is skipped
SkipEntry ==
    /\ pc = "versions"
    /\ verQueue # <<>>
    /\ ~IsDir(pkg_name, Head(verQueue))
    /\ verQueue' = Tail(verQueue)
    /\ pkg_version' = Head(verQueue)
    /\ UNCHANGED <<disk, env, sidecar, files, pc, err, run, pkgQueue, apkQueue, pkg_name,
                   common_props, package_variants, pkg_props, base_apk_signature,
                   packages, sig, log, files0, sidecar0, lastManifest, clock>>

\* lines 58-59: the dictionary a version starts from
NewProps(name) ==
    << <<"versionCode", IntOf(name)>>, <<"apks", <<>> >>, <<"apkHashes", <<>> >>,
       <<"apkSizes", <<>> >>, <<"apkGzSizes", <<>> >>, <<"apkBrSizes", <<>> >> >>

\* lines 52-59: the next version directory; pkg_props starts from its name
BeginVersion ==
    /\ pc = "versions"
    /\ verQueue # <<>>
    /\ IsDir(pkg_name, Head(verQueue))
    /\ verQueue' = Tail(verQueue)
    /\ pkg_version' = Head(verQueue)
    /\ IF IsDigits(Head(verQueue))
       THEN /\ pkg_props' = NewProps(Head(verQueue))
            /\ pc' = "primary"
            /\ err' = err
       ELSE /\ Raise("ValueError: int")
            /\ UNCHANGED pkg_props
    /\ UNCHANGED <<disk, env, sidecar, files, run, pkgQueue, apkQueue, pkg_name, common_props,
                   package_variants, base_apk_signature, packages, sig, log, files0,
                   sidecar0, lastManifest, clock>>

\* lines 61-62: base.apk must exist
CheckPrimary ==
    /\ pc = "primary"
    /\ IF CurVersion.apks[BaseApk].exists
       THEN pc' = "basesig" /\ err' = err
       ELSE Raise("AssertionError: base.apk")
    /\ UNCHANGED <<disk, env, sidecar, files, run, pkgQueue, verQueue, apkQueue, pkg_name,
                   common_props, package_variants, pkg_version, pkg_props,
                   base_apk_signature, packages, sig, log, files0, sidecar0, lastManifest, clock>>

\* lines 64-66: the primary's signature must be one of the package's signatures
LoadBaseSignature ==
    /\ pc = "basesig"
    /\ log' = Append(log, <<"apksigner", CurPath(BaseApk)>>)
    /\ LET s == load_signature(CurVersion.apks[BaseApk]) IN
        IF s.err # ""
        THEN Raise(s.err) /\ UNCHANGED base_apk_signature
        ELSE /\ base_apk_signature' = s.val
             /\ IF InList(s.val, DictGet(common_props, "signatures"))
                THEN pc' = "badging" /\ err' = err
                ELSE Raise("unknown signature")
    /\ UNCHANGED <<disk, env, sidecar, files, run, pkgQueue, verQueue, apkQueue, pkg_name,
                   common_props, package_variants, pkg_version, pkg_props, packages, sig,
                   files0, sidecar0, lastManifest, clock>>

\* lines 68-90: the primary's badging is parsed into pkg_props
ParseBadging ==
    /\ pc = "badging"
    /\ log' = Append(log, <<"aapt2", CurPath(BaseApk)>>)
    /\ LET r == ParseBaseBadging(CurVersion.apks[BaseApk], pkg_props, pkg_name) IN
        /\ pkg_props' = r.props
        /\ IF r.err = "" THEN pc' = "minsdk" /\ err' = err ELSE Raise(r.err)
    /\ UNCHANGED <<disk, env, sidecar, files, run, pkgQueue, verQueue, apkQueue, pkg_name,
                   common_props, package_variants, pkg_version, base_apk_signature,
                   packages, sig, files0, sidecar0, lastManifest, clock>>

\* minSdk is looked for among the extracted values and those of props.toml
CheckMinSdk_afterMerge ==
    /\ pc = "minsdk"
    /\ IF DictHas(DictUpdate(pkg_props, load_props(TRUE, CurVersion.props)), "minSdk")
       THEN pc' = "merge" /\ err' = err
       ELSE Raise("AssertionError: minSdk")
    /\ UNCHANGED <<disk, env, sidecar, files, run, pkgQueue, verQueue, apkQueue, pkg_name,
                   common_props, package_variants, pkg_version, pkg_props,
                   base_apk_signature, packages, sig, log, files0, sidecar0, lastManifest, clock>>

\* line 92
CheckMinSdk ==
    /\ pc = "minsdk"
    /\ IF DictHas(pkg_props, "minSdk")
       THEN pc' = "merge" /\ err' = err
       ELSE Raise("AssertionError: minSdk")
    /\ UNCHANGED <<disk, env, sidecar, files, run, pkgQueue, verQueue, apkQueue, pkg_name,
                   common_props, package_variants, pkg_version, pkg_props,
                   base_apk_signature, packages, sig, log, files0, sidecar0, lastManifest, clock>>

\* lines 94-95: every key of props.toml is stored into pkg_props
MergeProps ==
    /\ pc = "merge"
    /\ pkg_props' = DictUpdate(pkg_props, load_props(TRUE, CurVersion.props))
    /\ pc' = "channel"
    /\ UNCHANGED <<disk, env, sidecar, files, err, run, pkgQueue, verQueue, apkQueue, pkg_name,
                   common_props, package_variants, pkg_version, base_apk_signature,
                   packages, sig, log, files0, sidecar0, lastManifest, clock>>

\* lines 97-115: the channel is checked, the message printed, the artifacts listed
CheckChannel ==
    /\ pc = "channel"
    /\ LET e == CheckChannelAndPrint(pkg_props) IN
        IF e = ""
        THEN /\ apkQueue' = SortedInts({a \in ApkNames : CurVersion.apks[a].exists})
             /\ pc' = "artifacts"
             /\ err' = err
        ELSE Raise(e) /\ UNCHANGED apkQueue
    /\ UNCHANGED <<disk, env, sidecar, files, run, pkgQueue, verQueue, pkg_name, common_props,
                   package_variants, pkg_version, pkg_props, base_apk_signature, packages,
                   sig, log, files0, sidecar0, lastManifest, clock>>

\* lines 115-159: one iteration of the artifact loop
ProcessApk ==
    /\ pc = "artifacts"
    /\ apkQueue # <<>>
    /\ LET a == Head(apkQueue)
           path == CurPath(a)
           apk == CurVersion.apks[a]
           stale == CheckCompanions(apk)
           s == load_signature(apk)
           bad == CheckArtifact(apk, base_apk_signature, pkg_props, pkg_name)
           apk_hash == Sha256(apk.content)
       IN  /\ apkQueue' = Tail(apkQueue)
           /\ IF stale # "" THEN
                 /\ Raise(stale)
                 /\ UNCHANGED <<sidecar, pkg_props, log>>
              ELSE IF CachedDigest(path) # <<>> THEN
                 \* lines 126-128: the sidecar is read
                 /\ log' = Append(log, <<"read-sidecar", path>>)
                 /\ pkg_props' = AppendArtifact(pkg_props, a, apk, CachedDigest(path)[1])
                 /\ UNCHANGED <<sidecar, pc, err>>
              ELSE IF bad # "" THEN
                 \* lines 132-146: a check fails
                 /\ log' = log \o << <<"apksigner", path>> >>
                           \o (IF s.err = "" /\ s.val = base_apk_signature
                               THEN << <<"aapt2", path>> >> ELSE <<>>)
                 /\ Raise(bad)
                 /\ UNCHANGED <<sidecar, pkg_props>>
              ELSE
                 \* lines 148-153: the content is hashed and the sidecar written
                 /\ log' = log \o << <<"apksigner", path>>, <<"aapt2", path>>,
                                     <<"sha256", path>>, <<"write-sidecar", path>> >>
                 /\ sidecar' = [sidecar EXCEPT ![path] = <<SidecarText(apk_hash)>>]
                 /\ pkg_props' = AppendArtifact(pkg_props, a, apk, apk_hash)
                 /\ UNCHANGED <<pc, err>>
    /\ UNCHANGED <<disk, env, files, run, pkgQueue, verQueue, pkg_name, common_props,
                   package_variants, pkg_version, base_apk_signature, packages, sig,
                   files0, sidecar0, lastManifest, clock>>

\* lines 161-166: a version of the "old" channel is dropped, any other is kept
EndVersion ==
    /\ pc = "artifacts"
    /\ apkQueue = <<>>
    /\ package_variants' =
          IF Retained(pkg_props) THEN DictSet(package_variants, pkg_version, pkg_props)
          ELSE package_variants
    /\ pc' = "versions"
    /\ UNCHANGED <<disk, env, sidecar, files, err, run, pkgQueue, verQueue, apkQueue, pkg_name,
                   common_props, pkg_version, pkg_props, base_apk_signature, packages,
                   sig, log, files0, sidecar0, lastManifest, clock>>

\* lines 168-169
EndPackage ==
    /\ pc = "versions"
    /\ verQueue = <<>>
    /\ common_props' = DictSet(common_props, "variants", package_variants)
    /\ packages' = DictSet(packages, pkg_name, common_props')
    /\ pc' = "packages"
    /\ UNCHANGED <<disk, env, sidecar, files, err, run, pkgQueue, verQueue, apkQueue, pkg_name,
                   package_variants, pkg_version, pkg_props, base_apk_signature, sig, log,
                   files0, sidecar0, lastManifest, clock>>

\* lines 171-182: the manifest is built and written to metadata.1.json
WriteManifest ==
    /\ pc = "packages"
    /\ ScanFinished
    /\ files' = [files EXCEPT !.json =
                    << <<JsonDump(<< <<"time", clock>>, <<"packages", packages>> >>)>> >>]
    /\ log' = Append(log, <<"write-json", <<0, 0, 0>> >>)
    /\ pc' = "sign"
    /\ UNCHANGED <<disk, env, sidecar, err, run, pkgQueue, verQueue, apkQueue, pkg_name,
                   common_props, package_variants, pkg_version, pkg_props,
                   base_apk_signature, packages, sig, files0, sidecar0, lastManifest, clock>>

\* line 184: signify signs metadata.1.json into metadata.1.json.0.sig, or fails
Signify ==
    /\ pc = "sign"
    /\ log' = Append(log, <<"signify", <<0, 0, 0>> >>)
    /\ IF env.signify = "failed"
       THEN Raise("CalledProcessError: signify") /\ UNCHANGED files
       ELSE /\ files' = [files EXCEPT !.sig =
                   << << CommentLine >>
                      \o (IF env.signify = "signed" THEN <<Signature(files.json[1])>> ELSE <<>>) >>]
            /\ pc' = "readsig"
            /\ err' = err
    /\ UNCHANGED <<disk, env, sidecar, run, pkgQueue, verQueue, apkQueue, pkg_name, common_props,
                   package_variants, pkg_version, pkg_props, base_apk_signature, packages,
                   sig, files0, sidecar0, lastManifest, clock>>

\* lines 186-187: the second line of the signature file
ReadSignature ==
    /\ pc = "readsig"
    /\ LET lines == files.sig[1] IN
        IF Len(lines) >= 2
        THEN sig' = <<SignaturePayload(lines)>> /\ pc' = "sjson" /\ err' = err
        ELSE Raise("IndexError: sig") /\ UNCHANGED sig
    /\ UNCHANGED <<disk, env, sidecar, files, run, pkgQueue, verQueue, apkQueue, pkg_name,
                   common_props, package_variants, pkg_version, pkg_props,
                   base_apk_signature, packages, log, files0, sidecar0, lastManifest, clock>>

\* lines 189-192: metadata.1.sjson is the copy of metadata.1.json plus the signature line
WriteSjson ==
    /\ pc = "sjson"
    /\ files' = [files EXCEPT !.sjson = <<files.json[1] \o <<"\n", sig[1], "\n">> >>]
    /\ log' = Append(log, <<"write-sjson", <<0, 0, 0>> >>)
    /\ pc' = "done"
    /\ UNCHANGED <<disk, env, sidecar, err, run, pkgQueue, verQueue, apkQueue, pkg_name,
                   common_props, package_variants, pkg_version, pkg_props,
                   base_apk_signature, packages, sig, files0, sidecar0, lastManifest, clock>>

\* the script is started again, later, on the tree the last run left behind
Rerun ==
    /\ pc \in {"done", "aborted"}
    /\ run < MaxRuns
    /\ run' = run + 1
    /\ lastManifest' = IF pc = "done" THEN files.json ELSE <<>>
    /\ files0' = files
    /\ sidecar0' = sidecar
    /\ pc' = "start"
    /\ err' = ""
    /\ pkgQueue' = <<>>
    /\ verQueue' = <<>>
    /\ apkQueue' = <<>>
    /\ pkg_name' = 0
    /\ common_props' = <<>>
    /\ package_variants' = <<>>
    /\ pkg_version' = <<>>
    /\ pkg_props' = <<>>
    /\ base_apk_signature' = ""
    /\ packages' = <<>>
    /\ sig' = <<>>
    /\ log' = <<>>
    /\ clock' = clock + 1
    /\ UNCHANGED <<disk, env, sidecar, files>>

Next ==
    \/ RunCompress
    \/ NextPackage
    \/ SkipEntry
    \/ BeginVersion
    \/ CheckPrimary
    \/ LoadBaseSignature
    \/ ParseBadging
    \/ CheckMinSdk
    \/ MergeProps
    \/ CheckChannel
    \/ ProcessApk
    \/ EndVersion
    \/ EndPackage
    \/ WriteManifest
    \/ Signify
    \/ ReadSignature
    \/ WriteSjson
    \/ Rerun

Spec == Init /\ [][Next]_vars

\* ---------------------------------------------------------------- properties
Nowhere == <<0, 0, 0>>

\* the run has invoked the tool, or written the file, on the path
Logged(op, path) == \E i \in 1..Len(log) : log[i] = <<op, path>>

WroteJson == Logged("write-json", Nowhere)

\* the document in metadata.1.json and its packages
Manifest == files.json[1][1][2]
ManifestPackages == DictGet(Manifest, "packages")

\* the exceptions of lines 184-187
SigningErrors == {"CalledProcessError: signify", "IndexError: sig"}

\* the artifacts of the tree: what is on disk, whatever the script makes of it
DirVersions(p) == {v \in VersionIds : disk[p].vers[v].kind = "dir"}
Artifacts(p, v) == {a \in ApkNames : disk[p].vers[v].apks[a].exists}

\* C1: in every emitted manifest, every artifact listed in a variant carries
\* exactly the signature digest of the variant's base.apk, and that digest is
\* one of the package's trusted signatures.
C1_ListedArtifactsShareTrustedSignature ==
    WroteJson =>
        \A i \in 1..Len(ManifestPackages) :
            LET p == ManifestPackages[i][1]
                entry == ManifestPackages[i][2]
                variants == DictGet(entry, "variants")
            IN  \A j \in 1..Len(variants) :
                    LET ver == disk[p].vers[VerOf(variants[j][1])]
                        base == ver.apks[BaseApk]
                    IN  \A a \in ApkNames :
                            InList(a, DictGet(variants[j][2], "apks")) =>
                                /\ Len(base.signers) = 1
                                /\ ver.apks[a].signers = base.signers
                                /\ InList(base.signers[1], DictGet(entry, "signatures"))

\* C2: when a version has been accepted (its artifact loop has ended), every
\* artifact in its directory declares the version code of the variant.
C2_ArtifactsDeclareVariantVersionCode ==
    (pc = "artifacts" /\ apkQueue = <<>>) =>
        \A a \in Artifacts(pkg_name, VerOf(pkg_version)) :
            LET apk == CurVersion.apks[a] IN
                /\ Len(apk.declCode) = 1
                /\ IntOf(apk.declCode[1]) = DictGet(pkg_props, "versionCode")

\* every artifact of every version directory has been through the artifact loop
AllProcessed ==
    \A p \in PkgNames : disk[p].exists =>
        /\ ~disk[p].junk
        /\ \A v \in DirVersions(p) : \A a \in Artifacts(p, v) :
              Logged("read-sidecar", <<p, v, a>>) \/ Logged("write-sidecar", <<p, v, a>>)

\* C3: the output files differ from what the run found only once every version
\* directory of every package has been processed; a run that a validation step
\* aborts leaves metadata.1.json, its signature and metadata.1.sjson as they were.
C3_ManifestOnlyAfterFullScan ==
    /\ files # files0 =>
          /\ AllProcessed
          /\ pc \in {"sign", "readsig", "sjson", "done", "aborted"}
          /\ pc = "aborted" => err \in SigningErrors
    /\ (pc = "aborted" /\ err \notin SigningErrors) => files = files0

\* a split fails its signature check after base.apk went through the loop, and
\* none of the output files exists
C3_Witness ==
    /\ pc = "aborted"
    /\ err = "signature mismatch"
    /\ files = files0
    /\ \E x \in Paths : Logged("write-sidecar", x)

\* C4: a run whose signing step fails leaves metadata.1.json and
\* metadata.1.sjson as it found them.
C4_SigningFailureWritesNoManifest ==
    (pc = "aborted" /\ err \in SigningErrors) =>
        /\ files.json = files0.json
        /\ files.sjson = files0.sjson

\* the channel a version has after the merge of its props.toml
ChannelOf(p, v) ==
    IF DictHas(disk[p].vers[v].props, "channel")
    THEN DictGet(disk[p].vers[v].props, "channel") ELSE "none"

\* the version code a version has after the merge of its props.toml
VersionCodeOf(p, v) ==
    IF DictHas(disk[p].vers[v].props, "versionCode")
    THEN DictGet(disk[p].vers[v].props, "versionCode") ELSE IntOf(VersionDir(v))

\* what the validation steps demand of a version directory, stated on the tree
\* and on the sidecars the run found
WellFormed(p, v) ==
    LET ver == disk[p].vers[v]
        base == ver.apks[BaseApk]
    IN  /\ base.exists
        /\ Len(base.signers) = 1
        /\ disk[p].hasCommonProps
        /\ InList(base.signers[1], DictGet(disk[p].commonProps, "signatures"))
        /\ base.declName = p
        /\ \A i \in 1..Len(base.declCode) : IntOf(base.declCode[i]) = IntOf(VersionDir(v))
        /\ base.sdk # <<>>
        /\ Len(base.native) <= 1
        /\ ChannelOf(p, v) \in {"alpha", "beta", "stable", "old"}
        /\ \A a \in Artifacts(p, v) :
              LET apk == ver.apks[a] IN
                /\ apk.gzMtime = <<apk.mtime>>
                /\ apk.brMtime = <<apk.mtime>>
                /\ sidecar0[<<p, v, a>>] = <<>> =>
                      /\ apk.signers = base.signers
                      /\ apk.declName = p
                      /\ Len(apk.declCode) = 1
                      /\ IntOf(apk.declCode[1]) = VersionCodeOf(p, v)

\* the keys of the variant mapping the manifest holds for package p
EmittedKeys(p) ==
    IF DictHas(ManifestPackages, p)
    THEN DictKeys(DictGet(DictGet(ManifestPackages, p), "variants")) ELSE {}

\* C5: a version whose channel is "old" is never a key of its package's variant
\* mapping; a version of any channel, "old" included, is accepted only if it
\* passes the validation steps, and a run that completes has validated every
\* version directory.
C5_OldValidatedButNotEmitted ==
    \A p \in PkgNames : \A v \in VersionIds :
        /\ ChannelOf(p, v) = "old" =>
              /\ pkg_name = p => ~DictHas(package_variants, VersionDir(v))
              /\ files.json # <<>> => VersionDir(v) \notin EmittedKeys(p)
        /\ (pc = "artifacts" /\ apkQueue = <<>> /\ pkg_name = p
                /\ pkg_version = VersionDir(v)) => WellFormed(p, v)
        /\ (pc = "done" /\ disk[p].exists /\ v \in DirVersions(p)) => WellFormed(p, v)

\* a completed run over a package with an "old" version and an emitted one
C5_Witness ==
    /\ pc = "done"
    /\ \E p \in PkgNames : \E v \in DirVersions(p) :
          /\ ChannelOf(p, v) = "old"
          /\ Logged("write-sidecar", <<p, v, BaseApk>>)
          /\ EmittedKeys(p) # {}

\* the artifacts of the current version in the order the loop of line 115 visits them
LoopOrder == SortedInts(Artifacts(pkg_name, VerOf(pkg_version)))

\* C6: an artifact that had a sidecar with text D when it was processed is
\* recorded with digest D, and its content is neither hashed nor its sidecar rewritten.
C6_SidecarIsTrusted ==
    pc = "artifacts" =>
        \A i \in 1..Len(DictGet(pkg_props, "apkHashes")) :
            LET path == CurPath(LoopOrder[i]) IN
                sidecar0[path] # <<>> =>
                    /\ DictGet(pkg_props, "apkHashes")[i] = sidecar0[path][1]
                    /\ ~Logged("sha256", path)
                    /\ ~Logged("write-sidecar", path)
                    /\ sidecar[path] = sidecar0[path]

\* an artifact whose sidecar does not hold the digest of its content has been processed
C6_Witness ==
    /\ pc = "artifacts"
    /\ \E i \in 1..Len(DictGet(pkg_props, "apkHashes")) :
          LET path == CurPath(LoopOrder[i]) IN
              /\ sidecar0[path] # <<>>
              /\ sidecar0[path][1] # Sha256(CurVersion.apks[LoopOrder[i]].content)
              /\ Logged("read-sidecar", path)

\* C7: a run that completes right after a run that completed on the same tree
\* writes the same packages into the manifest: same keys, values and order.
C7_SecondRunSameManifest ==
    (pc = "done" /\ lastManifest # <<>>) =>
        ManifestPackages = DictGet(lastManifest[1][1][2], "packages")

\* the second run read sidecars the first run wrote, and the time field differs
C7_Witness ==
    /\ pc = "done"
    /\ lastManifest # <<>>
    /\ \E x \in Paths : sidecar0[x] # <<>> /\ Logged("read-sidecar", x)
    /\ \E p \in PkgNames : EmittedKeys(p) # {}
    /\ DictGet(Manifest, "time") # DictGet(lastManifest[1][1][2], "time")

\* C8: after a completed run metadata.1.sjson is metadata.1.json, a line end, the
\* second line of the signature file and a line end, and metadata.1.json is
\* still the manifest as it was written.
C8_SjsonIsJsonPlusSignature ==
    pc = "done" =>
        /\ files.sig # <<>> /\ Len(files.sig[1]) >= 2
        /\ files.sjson = << files.json[1] \o <<"\n", files.sig[1][2], "\n">> >>
        /\ files.json = << <<JsonDump(<< <<"time", clock>>, <<"packages", packages>> >>)>> >>

C8_Witness ==
    /\ pc = "done"
    /\ \E p \in PkgNames : EmittedKeys(p) # {}
    /\ files.sjson[1][3] = Signature(files.json[1])

\* C9: load_signature returns a digest exactly when apksigner prints one signer
\* digest line, and then that digest; with none the run is aborted for a missing
\* signature, with two or more for more than one signer.
C9_ExactlyOneSigner ==
    /\ \A x \in Paths :
          LET apk == disk[x[1]].vers[x[2]].apks[x[3]]
              r == load_signature(apk)
          IN  /\ Len(apk.signers) = 1 => r.err = "" /\ r.val = apk.signers[1]
              /\ Len(apk.signers) = 0 => r.err = "didn't find signature"
              /\ Len(apk.signers) >= 2 => r.err = "more than one signer"
              /\ Logged("apksigner", x) =>
                    /\ Len(apk.signers) = 0 =>
                          pc = "aborted" /\ err = "didn't find signature"
                    /\ Len(apk.signers) >= 2 =>
                          pc = "aborted" /\ err = "more than one signer"
    /\ pc \in {"badging", "minsdk", "merge", "channel", "artifacts"} =>
          /\ Len(CurVersion.apks[BaseApk].signers) = 1
          /\ base_apk_signature = CurVersion.apks[BaseApk].signers[1]

\* apksigner was run on an artifact with two signers and the run is aborted
C9_Witness ==
    /\ pc = "aborted"
    /\ err = "more than one signer"
    /\ \E x \in Paths :
          /\ Logged("apksigner", x)
          /\ Len(disk[x[1]].vers[x[2]].apks[x[3]].signers) = 2

\* the architectures the badging of an artifact declares, over all native-code lines
RECURSIVE DeclaredArchs(_)
DeclaredArchs(native) ==
    IF native = <<>> THEN 0 ELSE Len(native[1]) + DeclaredArchs(Tail(native))

\* C10: no emitted variant belongs to a version whose base.apk declares more
\* than one architecture.
C10_MultiArchNeverEmitted ==
    WroteJson =>
        \A p \in PkgNames : \A v \in VersionIds :
            VersionDir(v) \in EmittedKeys(p) =>
                DeclaredArchs(disk[p].vers[v].apks[BaseApk].native) <= 1

\* the number of times the run has invoked the tool, or written the file, on the path
Count(op, path) == Cardinality({i \in 1..Len(log) : log[i] = <<op, path>>})

InSync(apk) == apk.gzMtime = <<apk.mtime>> /\ apk.brMtime = <<apk.mtime>>

\* the number of artifacts of the current version the loop of line 115 has been through
Processed == IF pc = "artifacts" THEN Len(LoopOrder) - Len(apkQueue) ELSE 0

\* the exceptions of lines 121-122
CompanionErrors == {"FileNotFoundError: gz", "AssertionError: gz mtime",
                    "FileNotFoundError: br", "AssertionError: br mtime"}

\* C12: the artifact loop never gets past an artifact whose .gz or .br
\* companion is missing or carries another modification time, with or without
\* a sidecar: every artifact it has processed has both companions in sync, and
\* when a run ends no such artifact has had its sidecar read, its content
\* hashed, its sidecar written or changed, a tool run on it by the loop, or an
\* entry appended for it; a run over a tree that holds one never writes the
\* manifest and never completes.
C12_StaleCompanionsAbortFirst ==
    /\ pc = "artifacts" =>
          \A i \in 1..Processed : InSync(CurVersion.apks[LoopOrder[i]])
    /\ pc \in {"aborted", "done"} =>
          \A p \in PkgNames : \A v \in DirVersions(p) : \A a \in Artifacts(p, v) :
              (disk[p].exists /\ ~InSync(disk[p].vers[v].apks[a])) =>
                  LET x == <<p, v, a>>
                      pre == IF a = BaseApk THEN 1 ELSE 0
                  IN  /\ ~Logged("read-sidecar", x)
                      /\ ~Logged("sha256", x)
                      /\ ~Logged("write-sidecar", x)
                      /\ Count("apksigner", x) <= pre
                      /\ Count("aapt2", x) <= pre
                      /\ sidecar[x] = sidecar0[x]
                      /\ (pkg_name = p /\ pkg_version = VersionDir(v)
                              /\ DictHas(pkg_props, "apks")) =>
                            ~InList(a, DictGet(pkg_props, "apks"))
                      /\ ~WroteJson
                      /\ pc # "done"

\* the run has aborted on an artifact that had a sidecar and a stale .br
\* companion, after it had processed the artifact before it
C12_Witness ==
    /\ pc = "aborted"
    /\ err \in {"FileNotFoundError: br", "AssertionError: br mtime"}
    /\ \E x \in Paths :
        /\ sidecar0[x] # <<>>
        /\ ~InSync(disk[x[1]].vers[x[2]].apks[x[3]])
        /\ x[3] # BaseApk
        /\ Logged("write-sidecar", <<x[1], x[2], BaseApk>>)

\* the channels of line 97, and those of them that lines 163-164 let through
AcceptedChannels == {"alpha", "beta", "stable", "old"}
EmittedChannels == {"alpha", "beta", "stable"}

\* the run has been through the loop of line 115 for some artifact of the version
LoopTouched(p, v) ==
    \E a \in ApkNames :
        \/ Logged("read-sidecar", <<p, v, a>>)
        \/ Logged("sha256", <<p, v, a>>)
        \/ Logged("write-sidecar", <<p, v, a>>)

\* C13: a version enters its artifact loop only with a channel, after the
\* merge of its props.toml, among alpha, beta, stable, old; when a run ends, a
\* version directory whose channel is missing or is another name has had none
\* of its artifacts processed, and a run over a tree that holds one never
\* writes the manifest and never completes; every variant stored, and every
\* variant of a manifest the run writes, has a channel among alpha, beta, stable.
C13_ChannelCheckedBeforeArtifacts ==
    /\ pc = "artifacts" =>
          /\ ChannelOf(pkg_name, VerOf(pkg_version)) \in AcceptedChannels
          /\ DictHas(pkg_props, "channel")
          /\ DictGet(pkg_props, "channel") \in AcceptedChannels
    /\ pc = "versions" =>
          \A j \in 1..Len(package_variants) :
              DictGet(package_variants[j][2], "channel") \in EmittedChannels
    /\ pc = "sign" =>
          \A i \in 1..Len(ManifestPackages) :
              LET variants == DictGet(ManifestPackages[i][2], "variants") IN
                  \A j \in 1..Len(variants) :
                      DictGet(variants[j][2], "channel") \in EmittedChannels
    /\ pc \in {"aborted", "done"} =>
          \A p \in PkgNames : \A v \in DirVersions(p) :
              (disk[p].exists /\ ChannelOf(p, v) \notin AcceptedChannels) =>
                  /\ ~LoopTouched(p, v)
                  /\ ~WroteJson
                  /\ pc # "done"

\* the run has aborted on the channel of a version directory, after it had
\* processed the version directory before it
C13_Witness ==
    /\ pc = "aborted"
    /\ err \in {"KeyError: channel", "AssertionError: channel"}
    /\ \E x \in Paths : Logged("write-sidecar", x)
    /\ ChannelOf(pkg_name, VerOf(pkg_version)) \notin AcceptedChannels

\* the five lists of lines 155-159
ParallelLists == {"apks", "apkHashes", "apkSizes", "apkGzSizes", "apkBrSizes"}

\* C14: between two iterations of the artifact loop the five lists apks,
\* apkHashes, apkSizes, apkGzSizes and apkBrSizes of the variant have the
\* length of the number of artifacts processed so far, and index i of each
\* describes the i-th artifact in sorted order; the five lists of every
\* emitted variant have one length.  This for any content of props.toml.
C14_ParallelListsAligned ==
    /\ pc = "artifacts" =>
          /\ \A k \in ParallelLists : Len(DictGet(pkg_props, k)) = Processed
          /\ \A i \in 1..Processed :
                LET apk == CurVersion.apks[LoopOrder[i]] IN
                    /\ DictGet(pkg_props, "apks")[i] = LoopOrder[i]
                    /\ DictGet(pkg_props, "apkSizes")[i] = apk.size
                    /\ DictGet(pkg_props, "apkGzSizes")[i] = apk.gzSize
                    /\ DictGet(pkg_props, "apkBrSizes")[i] = apk.brSize
    /\ WroteJson =>
          \A i \in 1..Len(ManifestPackages) :
              LET variants == DictGet(ManifestPackages[i][2], "variants") IN
                  \A j \in 1..Len(variants) : \A k \in ParallelLists :
                      Len(DictGet(variants[j][2], k)) = Len(DictGet(variants[j][2], "apkHashes"))

\* what lines 58-90 extract for a version, before its props.toml is looked at
Extracted(p, v) ==
    ParseBaseBadging(disk[p].vers[v].apks[BaseApk], NewProps(VersionDir(v)), p).props

\* C15: right after the merge of props.toml the variant has, under every key
\* of props.toml, the value props.toml gives it, and under every other key the
\* value extracted from the directory name and the primary's badging; it has
\* no other key.  Outside the five artifact lists this still holds when the
\* artifacts have been processed.
C15_OverrideWinsElseExtracted ==
    (pc = "channel" \/ (pc = "artifacts" /\ apkQueue = <<>>)) =>
        LET over == CurVersion.props
            ext == Extracted(pkg_name, VerOf(pkg_version))
            keys == IF pc = "channel" THEN DictKeys(pkg_props)
                    ELSE DictKeys(pkg_props) \ ParallelLists
        IN  /\ DictKeys(pkg_props) = DictKeys(over) \cup DictKeys(ext)
            /\ \A k \in keys :
                  IF k \in DictKeys(over)
                  THEN DictGet(pkg_props, k) = DictGet(over, k)
                  ELSE DictGet(pkg_props, k) = DictGet(ext, k)

\* props.toml gives a minSdk and a versionCode that differ from the extracted
\* ones, and the merge has stored them
C15_Witness ==
    /\ pc = "channel"
    /\ DictHas(CurVersion.props, "minSdk")
    /\ DictHas(CurVersion.props, "versionCode")
    /\ DictGet(CurVersion.props, "minSdk") # DictGet(Extracted(pkg_name, VerOf(pkg_version)), "minSdk")
    /\ DictGet(pkg_props, "minSdk") = DictGet(CurVersion.props, "minSdk")
    /\ DictGet(pkg_props, "versionCode") # IntOf(pkg_version)
    /\ DictGet(pkg_props, "label") = DictGet(Extracted(pkg_name, VerOf(pkg_version)), "label")

\* a step leaves every sidecar that exists as it is
SidecarsKept == \A x \in Paths : sidecar[x] # <<>> => sidecar'[x] = sidecar[x]

\* a run writes only sidecars that did not exist when it started, each once
SidecarsWrittenOnce ==
    \A x \in Paths :
        /\ Count("write-sidecar", x) <= 1
        /\ Logged("write-sidecar", x) => sidecar0[x] = <<>>
        /\ sidecar0[x] # <<>> => sidecar[x] = sidecar0[x]

\* C16: no step of any run modifies or deletes a sidecar that exists, so a
\* sidecar keeps its content over every sequence of runs; a run writes a
\* sidecar only for an artifact that had none, and at most once.
C16_SidecarsNeverRewritten == []SidecarsWrittenOnce /\ [][SidecarsKept]_vars

\* a second run has completed over a sidecar that it found stale before the
\* first run and over a sidecar that the first run wrote
C16_Witness ==
    /\ run = 2
    /\ pc = "done"
    /\ \E x \in Paths :
          /\ sidecar[x] # <<>>
          /\ sidecar[x] # <<Sha256(disk[x[1]].vers[x[2]].apks[x[3]].content)>>
          /\ Logged("read-sidecar", x)
    /\ \E y \in Paths :
          /\ sidecar[y] = <<Sha256(disk[y[1]].vers[y[2]].apks[y[3]].content)>>
          /\ Logged("read-sidecar", y)

\* the steps a version goes through before its artifact loop, stated on the
\* tree: each holds if the version passes the step and those before it
PrimaryExists(p, v) == disk[p].vers[v].apks[BaseApk].exists
SignatureTrusted(p, v) ==
    LET base == disk[p].vers[v].apks[BaseApk] IN
        /\ PrimaryExists(p, v)
        /\ Len(base.signers) = 1
        /\ disk[p].hasCommonProps
        /\ InList(base.signers[1], DictGet(disk[p].commonProps, "signatures"))
BadgingExtracted(p, v) ==
    LET base == disk[p].vers[v].apks[BaseApk] IN
        /\ SignatureTrusted(p, v)
        /\ base.declName = p
        /\ \A i \in 1..Len(base.declCode) : IntOf(base.declCode[i]) = IntOf(VersionDir(v))
        /\ Len(base.native) <= 1
MinSdkExtracted(p, v) ==
    /\ BadgingExtracted(p, v)
    /\ disk[p].vers[v].apks[BaseApk].sdk # <<>>
ChannelAccepted(p, v) ==
    /\ MinSdkExtracted(p, v)
    /\ ChannelOf(p, v) \in AcceptedChannels

\* C17: a version goes through its steps in this order: the primary exists,
\* its signature is trusted, its badging is extracted, minSdk is among the
\* extracted values, props.toml is merged, the channel is checked, the
\* artifacts are processed.  The minSdk check comes before the merge, so a
\* minSdk given only by props.toml does not satisfy it; when a run ends, every
\* version that has had an artifact read, hashed or given a sidecar is one that
\* passed every step before the loop.
C17_StepsInOrder ==
    /\ pc \in {"basesig", "badging", "minsdk", "merge", "channel", "artifacts"} =>
          LET p == pkg_name
              v == VerOf(pkg_version)
              base == CurPath(BaseApk)
          IN  CASE pc = "basesig" ->
                    /\ PrimaryExists(p, v)
                    /\ ~Logged("apksigner", base)
                    /\ pkg_props = NewProps(pkg_version)
                [] pc = "badging" ->
                    /\ SignatureTrusted(p, v)
                    /\ Logged("apksigner", base) /\ ~Logged("aapt2", base)
                    /\ pkg_props = NewProps(pkg_version)
                [] pc = "minsdk" ->
                    /\ BadgingExtracted(p, v)
                    /\ Logged("aapt2", base)
                    /\ pkg_props = Extracted(p, v)
                [] pc = "merge" ->
                    /\ MinSdkExtracted(p, v)
                    /\ pkg_props = Extracted(p, v)
                    /\ ~LoopTouched(p, v)
                [] pc = "channel" ->
                    /\ MinSdkExtracted(p, v)
                    /\ ~LoopTouched(p, v)
                [] pc = "artifacts" -> ChannelAccepted(p, v)
    /\ (pc = "aborted" /\ err = "AssertionError: minSdk") =>
          /\ pkg_props = Extracted(pkg_name, VerOf(pkg_version))
          /\ ~DictHas(pkg_props, "minSdk")
    /\ pc \in {"aborted", "done"} =>
          \A p \in PkgNames : \A v \in DirVersions(p) :
              (\/ pc = "done" /\ disk[p].exists
               \/ LoopTouched(p, v)
               \/ \E a \in ApkNames : sidecar[<<p, v, a>>] # sidecar0[<<p, v, a>>]) =>
                  ChannelAccepted(p, v)

\* the run has aborted on the minSdk check of a version whose props.toml gives
\* a minSdk, and whose base.apk had no sidecar
C17_Witness ==
    /\ pc = "aborted"
    /\ err = "AssertionError: minSdk"
    /\ DictHas(CurVersion.props, "minSdk")
    /\ sidecar[CurPath(BaseApk)] = <<>>

\* the run has aborted inside the artifact loop of the current version
AbortedInLoop ==
    /\ pc = "aborted"
    /\ DictHas(pkg_props, "channel")
    /\ err \notin SigningErrors \cup {"AssertionError: channel", "ValueError: int"}

\* the artifact the loop was at when the run aborted
AbortedOn == LoopOrder[Len(LoopOrder) - Len(apkQueue)]

\* the number of times lines 64 and 68 have run the tool on the artifact
BeforeLoop(a) == IF a = BaseApk THEN 1 ELSE 0

\* the tree gives the artifact the signer of the primary, the package's name
\* and the version code of the variant
CrossChecksHold(a) ==
    LET apk == CurVersion.apks[a] IN
        /\ Len(apk.signers) = 1
        /\ apk.signers = CurVersion.apks[BaseApk].signers
        /\ apk.declName = pkg_name
        /\ Len(apk.declCode) = 1
        /\ IntOf(apk.declCode[1]) = DictGet(pkg_props, "versionCode")

\* C18: the loop runs the signature tool and the badging tool on an artifact,
\* and compares signature, package name and version code, exactly when the
\* artifact has no sidecar at the time it is processed; on an artifact that has
\* a sidecar the loop runs neither tool.
C18_CrossChecksIffNoSidecar ==
    /\ pc = "artifacts" =>
          \A i \in 1..Processed :
              LET a == LoopOrder[i]
                  x == CurPath(a)
              IN  IF sidecar0[x] # <<>>
                  THEN /\ Count("apksigner", x) = BeforeLoop(a)
                       /\ Count("aapt2", x) = BeforeLoop(a)
                       /\ Logged("read-sidecar", x)
                  ELSE /\ Count("apksigner", x) = BeforeLoop(a) + 1
                       /\ Count("aapt2", x) = BeforeLoop(a) + 1
                       /\ CrossChecksHold(a)
    /\ AbortedInLoop =>
          LET a == AbortedOn
              x == CurPath(a)
          IN  /\ Len(apkQueue) < Len(LoopOrder)
              /\ IF sidecar0[x] # <<>> \/ err \in CompanionErrors
                 THEN /\ err \in CompanionErrors
                      /\ Count("apksigner", x) = BeforeLoop(a)
                      /\ Count("aapt2", x) = BeforeLoop(a)
                 ELSE /\ Count("apksigner", x) = BeforeLoop(a) + 1
                      /\ ~CrossChecksHold(a)

\* the loop has been through a base.apk that had no sidecar and a split that had one
C18_Witness ==
    /\ pc = "artifacts"
    /\ Processed = 2
    /\ sidecar0[CurPath(LoopOrder[1])] = <<>>
    /\ sidecar0[CurPath(LoopOrder[2])] # <<>>
    /\ Count("aapt2", CurPath(LoopOrder[1])) = 2
    /\ Count("aapt2", CurPath(LoopOrder[2])) = 0

\* C19: when a run ends, completed or aborted, every sidecar it wrote is on
\* disk and belongs to an artifact that, on the tree,
\* has both companions in sync, the single signer of its version's primary,
\* the package's name and the version code of the variant, and it holds the
\* digest of the artifact's content; the artifact on which a run aborts gets
\* no sidecar, and the sidecars the run wrote before stay on disk.
C19_SidecarOnlyAfterChecks ==
    /\ \A x \in Paths :
          (pc \in {"aborted", "done"} /\ Logged("write-sidecar", x)) =>
              LET p == x[1]
                  v == x[2]
                  apk == disk[p].vers[v].apks[x[3]]
              IN  /\ InSync(apk)
                  /\ Len(apk.signers) = 1
                  /\ apk.signers = disk[p].vers[v].apks[BaseApk].signers
                  /\ apk.declName = p
                  /\ Len(apk.declCode) = 1
                  /\ IntOf(apk.declCode[1]) = VersionCodeOf(p, v)
                  /\ sidecar[x] = <<Sha256(apk.content)>>
    /\ AbortedInLoop =>
          /\ ~Logged("write-sidecar", CurPath(AbortedOn))
          /\ ~Logged("sha256", CurPath(AbortedOn))
          /\ sidecar[CurPath(AbortedOn)] = sidecar0[CurPath(AbortedOn)]

\* the run has aborted on the package name of a split that has no sidecar,
\* after it wrote the sidecar of the artifact before it
C19_Witness ==
    /\ AbortedInLoop
    /\ err = "AssertionError: name"
    /\ AbortedOn # BaseApk
    /\ sidecar[CurPath(AbortedOn)] = <<>>
    /\ Logged("write-sidecar", CurPath(BaseApk))
    /\ sidecar[CurPath(BaseApk)] # <<>>

\* C20: every variant of an emitted manifest is stored under the name of its
\* version directory, and its versionCode is the integer value of that name and
\* the version code the version's base.apk declares, for any content of props.toml.
C20_KeyIsVersionCode ==
    WroteJson =>
        \A i \in 1..Len(ManifestPackages) :
            LET p == ManifestPackages[i][1]
                variants == DictGet(ManifestPackages[i][2], "variants")
            IN  \A j \in 1..Len(variants) :
                    LET key == variants[j][1]
                        base == disk[p].vers[VerOf(key)].apks[BaseApk]
                    IN  /\ \E v \in DirVersions(p) : VersionDir(v) = key
                        /\ DictGet(variants[j][2], "versionCode") = IntOf(key)
                        /\ Len(base.declCode) = 1
                        /\ IntOf(base.declCode[1]) = DictGet(variants[j][2], "versionCode")

====
